---- MODULE Spec2Model ----
(***************************************************************************)
(* Scroll-driven camera of the glove presentation site.                    *)
(*                                                                         *)
(* Two hooks build a GSAP timeline of "to" tweens on the camera and hand   *)
(* it to a ScrollTrigger with scrub smoothing: useCameraController (from   *)
(* the declarative SCENE_TIMELINE) and useScrollAnimation (fixed offsets). *)
(* The Scene component owns the React state that the hooks' onSceneChange  *)
(* callback writes.  The easing table of utils and the WebGL capability    *)
(* detection are pure functions, called through a probe.                   *)
(*                                                                         *)
(* Units.  Scroll progress is an integer number of hundredths (0..100).    *)
(* Timeline time is counted in units of 1/500 of a GSAP duration unit, so  *)
(* that the playhead of every modelled progress value is an integer.       *)
(* Camera coordinates are integers in millionths: GSAP writes a tweened    *)
(* numeric property as Math.round(v * 1000000) / 1000000.                   *)
(***************************************************************************)
EXTENDS Integers, Sequences, FiniteSets, TLC

\* ---------------------------------------------------------------------------
\* Bounds of the exploration
\* ---------------------------------------------------------------------------

\* Effect runs (mount and re-runs after a dependency change) explored.
MaxEffectRuns == 2

\* Invocations of one cleanup closure explored (React makes one; a second
\* one is the repeated disposal).
MaxCleanupRuns == 2

\* Scroll progress values the page is scrolled to while the whole lifecycle of
\* the hook is explored, in hundredths.
ProgressInputs == {0, 18, 30, 35, 60, 100}

\* Every progress value in hundredths: the inputs of the onUpdate handlers when
\* they are explored on their own.
AllProgress == 0..100

\* Raw scroll positions past the two ends of the scroll range (elastic
\* overscroll), in hundredths of the range.
Overscroll == {-10, 110}

\* Renders of the hook explored.
MaxRenders == 3

\* Playhead positions at which a frame may observe the scrub tween before it
\* has caught up with the scroll progress, in hundredths.
ScrubStops == {18, 35, 60}

\* ---------------------------------------------------------------------------
\* Arithmetic
\* ---------------------------------------------------------------------------

RECURSIVE Gcd(_, _)
Gcd(a, b) == IF b = 0 THEN a ELSE Gcd(b, a % b)

\* The fraction n/d (0 <= n, 0 < d) in lowest terms, as <<numerator, denominator>>.
Frac(n, d) == LET g == Gcd(n, d) IN <<n \div g, d \div g>>

RECURSIVE Pow(_, _)
Pow(b, e) == IF e = 0 THEN 1 ELSE b * Pow(b, e - 1)

\* Math.min(Math.max(value, min), max)
clamp(value, min, max) ==
    LET lo == IF value > min THEN value ELSE min
    IN  IF lo < max THEN lo ELSE max

\* Hundredths to millionths.
Micro(h) == h * 10000

\* ---------------------------------------------------------------------------
\* Configuration
\* ---------------------------------------------------------------------------

HookNames == {"useCameraController", "useScrollAnimation"}

\* scrollStart/scrollEnd in hundredths, duration in tenths, keyframes in
\* hundredths; fov 0 stands for an absent fov (the code tests its truthiness).
SCENE_TIMELINE == <<
    [id |-> "hero", scrollStart |-> 0, scrollEnd |-> 20, duration |-> 12,
     camera |-> [start |-> [position |-> <<0, 0, 500>>, rotation |-> <<0, 0, 0>>, fov |-> 0],
                 end   |-> [position |-> <<0, 0, 500>>, rotation |-> <<0, 0, 0>>, fov |-> 0]],
     easing |-> "power1.inOut"],
    [id |-> "gesture-flow", scrollStart |-> 20, scrollEnd |-> 50, duration |-> 20,
     camera |-> [start |-> [position |-> <<0, 0, 500>>, rotation |-> <<0, 0, 0>>, fov |-> 0],
                 end   |-> [position |-> <<0, 20, 280>>, rotation |-> <<0, 8, 0>>, fov |-> 0]],
     easing |-> "power1.inOut"],
    [id |-> "technology", scrollStart |-> 50, scrollEnd |-> 70, duration |-> 15,
     camera |-> [start |-> [position |-> <<0, 20, 280>>, rotation |-> <<0, 8, 0>>, fov |-> 0],
                 end   |-> [position |-> <<250, 150, 400>>, rotation |-> <<-15, -25, 0>>, fov |-> 0]],
     easing |-> "power1.inOut"],
    [id |-> "impact", scrollStart |-> 70, scrollEnd |-> 90, duration |-> 13,
     camera |-> [start |-> [position |-> <<250, 150, 400>>, rotation |-> <<-15, -25, 0>>, fov |-> 0],
                 end   |-> [position |-> <<0, 80, 600>>, rotation |-> <<-5, 0, 0>>, fov |-> 0]],
     easing |-> "power1.out"],
    [id |-> "closing", scrollStart |-> 90, scrollEnd |-> 100, duration |-> 8,
     camera |-> [start |-> [position |-> <<0, 80, 600>>, rotation |-> <<-5, 0, 0>>, fov |-> 0],
                 end   |-> [position |-> <<0, 30, 450>>, rotation |-> <<0, 0, 0>>, fov |-> 0]],
     easing |-> "power1.inOut"] >>

\* The SCENE_TIMELINE array the hook is bundled with: the timeline build and
\* the onUpdate handler of useCameraController read it.
VARIABLE scenes

\* scrub: SCROLL_CONFIG.scrubAmount for the camera controller, the literal 1
\* in useScrollAnimation.  A positive number makes the playhead catch up with
\* the scroll progress over that many seconds instead of jumping to it.
ScrubAmount(h) == IF h = "useCameraController" THEN 2 ELSE 1

\* <PerspectiveCamera makeDefault position={[0, 0, 5]} fov={50} />
InitialCamera ==
    [position |-> <<Micro(0), Micro(0), Micro(500)>>,
     rotation |-> <<Micro(0), Micro(0), Micro(0)>>,
     fov      |-> <<Micro(5000)>>]

\* ---------------------------------------------------------------------------
\* GSAP eases and tweens
\* ---------------------------------------------------------------------------

\* The ease names of the tweens; "none" is GSAP's linear ease.
EaseNames == {"none", "power1.inOut", "power1.out", "power2.inOut", "power2.out"}

\* Exponent of the GSAP ease family: power1 is quadratic, power2 cubic.
EasePower(name) ==
    IF name \in {"power1.inOut", "power1.out"} THEN 2 ELSE 3

EaseIsOut(name) == name \in {"power1.out", "power2.out"}

\* ease(n/d) as a fraction in lowest terms, for 0 <= n <= d.
\*   none:  p
\*   out:   1 - (1 - p)^k
\*   inOut: p < .5 ? (2p)^k / 2 : 1 - (2(1 - p))^k / 2
Ease(name, f) ==
    LET n == f[1]
        d == f[2]
        k == EasePower(name)
    IN  IF name = "none" THEN Frac(n, d)
        ELSE IF EaseIsOut(name)
        THEN Frac(Pow(d, k) - Pow(d - n, k), Pow(d, k))
        ELSE IF 2 * n < d
             THEN Frac(Pow(2 * n, k), 2 * Pow(d, k))
             ELSE Frac(2 * Pow(d, k) - Pow(2 * (d - n), k), 2 * Pow(d, k))

\* Math.round(x) for x = c * r[1] / r[2], computed without leaving 32 bits.
RoundScaled(c, r) ==
    LET q == c \div r[2]
        m == c % r[2]
    IN  q * r[1] + ((2 * m * r[1] + r[2]) \div (2 * r[2]))

\* The value a property tween writes: round(s + (e - s) * ratio).
Lerp(s, e, ratio) == s + RoundScaled(e - s, ratio)

\* One tl.to(target, vars, position): the animated components of the target
\* (1 = x, 2 = y, 3 = z; 1 alone for fov), the end values in millionths, the
\* start time and the duration in time units, and the ease.
MkTween(target, props, to, at, dur, ease) ==
    [target |-> target, props |-> props, to |-> to, at |-> at, dur |-> dur, ease |-> ease]

KeyframeMicro(v) == <<Micro(v[1]), Micro(v[2]), Micro(v[3])>>

\* Sum of the durations of the scenes before scene i, in time units: the
\* value of cumulativeDuration when scene i is laid out.
\* Faulty variant: cumulativeDuration is never advanced.
CumulativeDurationNotAdvanced(i) == 0

RECURSIVE CumulativeDuration(_)
CumulativeDuration(i) ==
    IF i = 1 THEN 0 ELSE CumulativeDuration(i - 1) + scenes[i - 1].duration * 50

\* Faulty variant: the fov tween is added only if both keyframes define fov.
SceneTweensFovOnBothEnds(i) ==
    LET scene == scenes[i]
        c     == scene.camera
        at    == CumulativeDuration(i)
        dur   == scene.duration * 50
    IN  << MkTween("position", {1, 2, 3}, KeyframeMicro(c.end.position), at, dur, scene.easing),
           MkTween("rotation", {1, 2, 3}, KeyframeMicro(c.end.rotation), at, dur, scene.easing) >>
        \o (IF c.start.fov # 0 /\ c.end.fov # 0
            THEN << MkTween("fov", {1}, <<Micro(c.end.fov)>>, at, dur, scene.easing) >>
            ELSE << >>)

\* The tweens useCameraController adds for scene i.
SceneTweens(i) ==
    LET scene == scenes[i]
        c     == scene.camera
        at    == CumulativeDuration(i)
        dur   == scene.duration * 50
    IN  << MkTween("position", {1, 2, 3}, KeyframeMicro(c.end.position), at, dur, scene.easing),
           MkTween("rotation", {1, 2, 3}, KeyframeMicro(c.end.rotation), at, dur, scene.easing) >>
        \o (IF c.end.fov # 0
            THEN << MkTween("fov", {1}, <<Micro(c.end.fov)>>, at, dur, scene.easing) >>
            ELSE << >>)

RECURSIVE CameraControllerTweens(_)
CameraControllerTweens(i) ==
    IF i > Len(scenes) THEN << >>
    ELSE SceneTweens(i) \o CameraControllerTweens(i + 1)

\* The tweens useScrollAnimation adds, in source order.  A component that the
\* vars object does not name is not animated; its entry in "to" is unused.
ScrollAnimationTweens == <<
    MkTween("position", {1, 2, 3}, KeyframeMicro(<<0, 0, 500>>),      0,  500, "power2.inOut"),
    MkTween("position", {3},       KeyframeMicro(<<0, 0, 250>>),    500,  750, "power2.inOut"),
    MkTween("rotation", {2},       KeyframeMicro(<<0, 10, 0>>),     500,  750, "power2.inOut"),
    MkTween("position", {1, 2, 3}, KeyframeMicro(<<300, 200, 400>>), 1250, 500, "power2.inOut"),
    MkTween("rotation", {1, 2},    KeyframeMicro(<<-20, -30, 0>>),  1250, 500, "power2.inOut"),
    MkTween("position", {1, 2, 3}, KeyframeMicro(<<0, 100, 600>>),  1750, 500, "power2.out"),
    MkTween("rotation", {1, 2},    KeyframeMicro(<<0, 0, 0>>),      1750, 500, "power2.out"),
    MkTween("position", {1, 2, 3}, KeyframeMicro(<<0, 50, 400>>),   2250, 250, "power2.inOut") >>

TweensOf(h) ==
    IF h = "useCameraController" THEN CameraControllerTweens(1) ELSE ScrollAnimationTweens

\* Duration of the timeline: the latest end of its tweens.
RECURSIVE MaxEnd(_, _)
MaxEnd(tws, i) ==
    IF i > Len(tws) THEN 0
    ELSE LET e == tws[i].at + tws[i].dur
             r == MaxEnd(tws, i + 1)
         IN  IF e > r THEN e ELSE r

TotalDuration(h) == MaxEnd(TweensOf(h), 1)

\* Timeline time of the playhead at scroll progress k hundredths
\* (totalProgress * totalDuration).
TimeOf(h, k) == (k * TotalDuration(h)) \div 100


\* ---------------------------------------------------------------------------
\* Timeline rendering (gsap.core.Timeline / Tween render)
\* ---------------------------------------------------------------------------

\* Runtime state of a tween before its first render: "to" tweens read their
\* start values from the target when they first render, not when created.
FreshTween(tw) ==
    [initted |-> FALSE, from |-> [i \in DOMAIN tw.to |-> 0], tt |-> 0]

FreshTweens(h) == [i \in DOMAIN TweensOf(h) |-> FreshTween(TweensOf(h)[i])]

\* Tween.render(totalTime): the local time is clamped to the tween; nothing
\* happens unless it changed (or is exactly 0); the first render records the
\* current values of the animated components as start values.
\* Yields <<runtime state, camera>>.
RenderTween(tw, st, camera, totalTime) ==
    LET tTime == clamp(totalTime, 0, tw.dur)
    IN  IF tTime # st.tt \/ totalTime = 0 \/ (~st.initted /\ st.tt # 0)
        THEN LET from  == IF st.initted THEN st.from
                          ELSE [i \in DOMAIN tw.to |->
                                  IF i \in tw.props THEN camera[tw.target][i] ELSE 0]
                 ratio == Ease(tw.ease, Frac(tTime, tw.dur))
             IN  << [initted |-> TRUE, from |-> from, tt |-> tTime],
                    [camera EXCEPT ![tw.target] =
                        [i \in DOMAIN @ |->
                            IF i \in tw.props THEN Lerp(from[i], tw.to[i], ratio) ELSE @[i]]] >>
        ELSE << st, camera >>

\* Children rendered first to last when the playhead does not move back: a
\* child is rendered once it is active or the playhead has reached its start.
RECURSIVE RenderForward(_, _, _, _, _)
RenderForward(tws, sts, camera, time, i) ==
    IF i > Len(tws) THEN << sts, camera >>
    ELSE IF sts[i].initted \/ time >= tws[i].at
         THEN LET r == RenderTween(tws[i], sts[i], camera, time - tws[i].at)
              IN  RenderForward(tws, [sts EXCEPT ![i] = r[1]], r[2], time, i + 1)
         ELSE RenderForward(tws, sts, camera, time, i + 1)

\* Children rendered last to first when the playhead moves back.
RECURSIVE RenderBackward(_, _, _, _, _)
RenderBackward(tws, sts, camera, time, i) ==
    IF i < 1 THEN << sts, camera >>
    ELSE IF sts[i].initted \/ time <= tws[i].at + tws[i].dur
         THEN LET r == RenderTween(tws[i], sts[i], camera, time - tws[i].at)
              IN  RenderBackward(tws, [sts EXCEPT ![i] = r[1]], r[2], time, i - 1)
         ELSE RenderBackward(tws, sts, camera, time, i - 1)

\* Faulty variant: the children are rendered first to last whichever way the playhead moves.
RenderTimelineForwardOnly(tws, sts, camera, prevTime, time) ==
    RenderForward(tws, sts, camera, time, 1)

\* Timeline.render: moves the playhead from prevTime to time.
RenderTimeline(tws, sts, camera, prevTime, time) ==
    IF time >= prevTime
    THEN RenderForward(tws, sts, camera, time, 1)
    ELSE RenderBackward(tws, sts, camera, time, Len(tws))

\* ---------------------------------------------------------------------------
\* Scene resolution in the two onUpdate handlers
\* ---------------------------------------------------------------------------

\* Faulty variant: ranges open on the left and closed on the right.
SceneMatchesLeftOpen(scene, p) == p > scene.scrollStart /\ p <= scene.scrollEnd

\* The findIndex predicate of useCameraController.
SceneMatches(scene, p) == p >= scene.scrollStart /\ p < scene.scrollEnd

\* Array.prototype.findIndex: the 0-based index of the first match, or -1.
RECURSIVE FindIndexFrom(_, _)
FindIndexFrom(p, i) ==
    IF i > Len(scenes) THEN -1
    ELSE IF SceneMatches(scenes[i], p) THEN i - 1
    ELSE FindIndexFrom(p, i + 1)

FindIndex(p) == FindIndexFrom(p, 1)

\* The argument useCameraController.onUpdate passes to onSceneChange, or 0
\* when it does not call it.
CameraControllerOnUpdate(p) ==
    LET currentScene == FindIndex(p)
    IN  IF currentScene # -1 THEN currentScene + 1 ELSE 0

\* Faulty variant: the first threshold is 0.25.
ScrollAnimationOnUpdateLateStart(p) ==
    IF p < 25 THEN 1
    ELSE IF p < 50 THEN 2
    ELSE IF p < 70 THEN 3
    ELSE IF p < 90 THEN 4
    ELSE 5

\* The argument useScrollAnimation.onUpdate passes to onSceneChange.
ScrollAnimationOnUpdate(p) ==
    IF p < 20 THEN 1
    ELSE IF p < 50 THEN 2
    ELSE IF p < 70 THEN 3
    ELSE IF p < 90 THEN 4
    ELSE 5

\* The scene the handler of hook h resolves for progress p (0: none).
ResolveScene(h, p) ==
    IF h = "useCameraController" THEN CameraControllerOnUpdate(p)
    ELSE ScrollAnimationOnUpdate(p)


\* ---------------------------------------------------------------------------
\* State
\* ---------------------------------------------------------------------------

VARIABLES
    hook,                \* which hook the mounted Scene calls
    phase,               \* "none" before the first effect run, "inert" after a run
                         \* with a null camera, "attached", "detached" after cleanup
    effectRuns,          \* effect runs so far
    cleanupRuns,         \* invocations of the cleanup closure of the last attach
    timelineRef,         \* timelineRef.current: 0 for null, else the run that built tl
    tlLive,              \* tl has not been killed
    stLive,              \* the ScrollTrigger of tl has not been killed
    progress,            \* scroll progress of the page; self.progress of a live
                         \* ScrollTrigger
    playhead,            \* totalProgress of tl, which the scrub tween moves
    tweens,              \* runtime state of the tweens of tl
    camera,              \* the THREE.PerspectiveCamera: position, rotation, fov
    currentScene,        \* Scene: useState(1)
    sceneScrollProgress, \* Scene: useState(0), in hundredths
    scrollRatio,         \* raw scroll position of the page over the scroll range,
                         \* in hundredths; overscroll takes it outside 0..100
    rendered,            \* the renders of the hook that are followed, and the value
                         \* the last of them returned (timelineRef.current as read)
    probe,               \* a call of one of the utility functions: its arguments
                         \* and, once it has returned, its result
    liveTimelines,       \* the timelines built by the hook and not killed, each
                         \* named by the effect run that built it
    pageTrigger,         \* a ScrollTrigger created by other code of the page:
                         \* "none", "live" or "killed"
    attachCamera,        \* history: the camera when tl was built
    last,                \* history: the last onUpdate of this attach
    run                  \* history: the onUpdates of this attach while they follow a script

vars == << hook, phase, effectRuns, cleanupRuns, timelineRef, tlLive, stLive, progress,
            playhead, tweens, camera, currentScene, sceneScrollProgress,
           scenes, scrollRatio, rendered, probe, liveTimelines, pageTrigger,
           attachCamera, last, run >>

\* What the lifecycle and scroll operations of the hooks never touch.
fixed == << hook, scenes, rendered, probe >>

\* p: the progress delivered; seg: the scene the handler resolved (0: none);
\* arg: the argument it passed to onSceneChange (0: no call); prevSeg: the
\* scene resolved by the update before (0: none).
NoUpdate == [p |-> -1, seg |-> 0, arg |-> 0, prevSeg |-> 0]

\* Progress sequences whose updates are recorded one by one.
Scripts == { <<0, 10, 20, 35, 55, 75, 95, 100>>, <<60, 30, 60>> }

IsPrefix(s, t) == Len(s) <= Len(t) /\ \A i \in 1..Len(s) : s[i] = t[i]

NoRun == [on |-> TRUE, log |-> << >>]

RunInputs(log) == [i \in DOMAIN log |-> log[i].p]

Record(r, entry) ==
    LET log == Append(r.log, entry)
    IN  IF r.on /\ \E s \in Scripts : IsPrefix(RunInputs(log), s)
        THEN [on |-> TRUE, log |-> log]
        ELSE [on |-> FALSE, log |-> << >>]

\* Faulty variant: technology starts at 0.45, inside the range of gesture-flow.
TimelineInUseOverlapping == [SCENE_TIMELINE EXCEPT ![3].scrollStart = 45]

\* Faulty variant: impact starts half a unit further out than technology ends.
TimelineInUseWithJump ==
    [SCENE_TIMELINE EXCEPT ![4].camera.start.position = <<250, 150, 450>>]

\* The timeline the hook reads: the SCENE_TIMELINE export of scenes.config.
TimelineInUse == SCENE_TIMELINE

\* No utility call is under way.
NoProbe == [fn |-> "none"]

\* Scene and hook before the first effect run, once hook and scenes are fixed.
InitScene ==
    /\ phase = "none"
    /\ effectRuns = 0
    /\ cleanupRuns = 0
    /\ timelineRef = 0
    /\ tlLive = FALSE
    /\ stLive = FALSE
    /\ progress = 0
    /\ playhead = 0
    /\ tweens = FreshTweens(hook)
    /\ camera = InitialCamera
    /\ currentScene = 1
    /\ sceneScrollProgress = 0
    /\ attachCamera = InitialCamera
    /\ scrollRatio = 0
    /\ rendered = [n |-> 0, value |-> 0]
    /\ liveTimelines = {}
    /\ last = NoUpdate
    /\ run = NoRun

Init ==
    /\ hook \in HookNames
    /\ scenes = TimelineInUse
    /\ probe = NoProbe
    /\ pageTrigger = "none"
    /\ InitScene

\* ---------------------------------------------------------------------------
\* Operations
\* ---------------------------------------------------------------------------

\* Faulty variant: no null guard; gsap.timeline({scrollTrigger}) runs before the first
\* camera.position is evaluated, so the trigger exists although nothing was built.
EffectRunNullUnguarded ==
    /\ phase' = "inert"
    /\ effectRuns' = effectRuns + 1
    /\ cleanupRuns' = 0
    /\ tlLive' = TRUE
    /\ stLive' = TRUE
    /\ playhead' = 0
    /\ tweens' = FreshTweens(hook)
    /\ last' = NoUpdate
    /\ run' = NoRun
    /\ liveTimelines' = liveTimelines \cup {effectRuns + 1}
    /\ UNCHANGED pageTrigger
    /\ UNCHANGED << fixed, scrollRatio, timelineRef, progress, camera, currentScene, sceneScrollProgress,
                    attachCamera >>

\* useEffect body with camera === null: returns before anything is created
\* and returns no cleanup.
EffectRunNull ==
    /\ phase' = "inert"
    /\ effectRuns' = effectRuns + 1
    /\ cleanupRuns' = 0
    /\ UNCHANGED << liveTimelines, pageTrigger >>
    /\ UNCHANGED << fixed, scrollRatio, timelineRef, tlLive, stLive, progress, playhead, tweens,
                    camera, currentScene, sceneScrollProgress, attachCamera, last, run >>

\* useEffect body with a camera: gsap.timeline({scrollTrigger}), the tl.to
\* calls and timelineRef.current = tl.  The new timeline sits at time 0; its
\* ScrollTrigger reads the scroll progress of the page and scrubs towards it.
EffectRunCamera ==
    LET r == RenderTimeline(TweensOf(hook), FreshTweens(hook), camera, 0, 0)
    IN  /\ phase' = "attached"
        /\ effectRuns' = effectRuns + 1
        /\ cleanupRuns' = 0
        /\ timelineRef' = effectRuns + 1
        /\ tlLive' = TRUE
        /\ stLive' = TRUE
        /\ playhead' = 0
        /\ tweens' = r[1]
        /\ camera' = r[2]
        /\ attachCamera' = camera
        /\ last' = NoUpdate
        /\ run' = NoRun
        /\ liveTimelines' = liveTimelines \cup {effectRuns + 1}
        /\ UNCHANGED pageTrigger
        /\ UNCHANGED << fixed, scrollRatio, progress, currentScene, sceneScrollProgress >>

\* React runs the effect on mount and after a change of [camera,
\* onSceneChange], always after the cleanup of the run before.
EffectRun(cam) ==
    /\ phase # "attached"
    /\ effectRuns < MaxEffectRuns
    /\ IF cam = "null" THEN EffectRunNull ELSE EffectRunCamera

\* Faulty variant: the cleanup drops its bookkeeping but kills neither tl nor its trigger.
CleanupKillsNothing ==
    /\ phase \in {"attached", "detached"}
    /\ cleanupRuns < MaxCleanupRuns
    /\ phase' = "detached"
    /\ cleanupRuns' = cleanupRuns + 1
    /\ UNCHANGED << liveTimelines, pageTrigger >>
    /\ UNCHANGED << fixed, scrollRatio, effectRuns, timelineRef, tlLive, stLive, progress, playhead, tweens,
                    camera, currentScene, sceneScrollProgress, attachCamera, last, run >>

\* Faulty variant: tl.revert() instead of tl.kill(): the camera goes back to where the
\* timeline found it.
CleanupReverts ==
    /\ phase \in {"attached", "detached"}
    /\ cleanupRuns < MaxCleanupRuns
    /\ phase' = "detached"
    /\ cleanupRuns' = cleanupRuns + 1
    /\ tlLive' = FALSE
    /\ stLive' = FALSE
    /\ camera' = attachCamera
    /\ liveTimelines' = liveTimelines \ {timelineRef}
    /\ pageTrigger' = (IF pageTrigger = "live" THEN "killed" ELSE pageTrigger)
    /\ UNCHANGED << fixed, scrollRatio, effectRuns, timelineRef, progress, playhead, tweens,
                    currentScene, sceneScrollProgress, attachCamera, last, run >>

\* Faulty variant: the triggers are killed but tl.kill() is left out.
CleanupKillsTriggersOnly ==
    /\ phase \in {"attached", "detached"}
    /\ cleanupRuns < MaxCleanupRuns
    /\ phase' = "detached"
    /\ cleanupRuns' = cleanupRuns + 1
    /\ stLive' = FALSE
    /\ pageTrigger' = (IF pageTrigger = "live" THEN "killed" ELSE pageTrigger)
    /\ UNCHANGED << fixed, scrollRatio, effectRuns, timelineRef, tlLive, liveTimelines,
                    progress, playhead, tweens, camera, currentScene, sceneScrollProgress,
                    attachCamera, last, run >>

\* The cleanup closure: tl.kill(); ScrollTrigger.getAll().forEach(kill).
\* Killing stops the timeline and the scrub tween where they are.  getAll()
\* yields every ScrollTrigger of the page, whoever created it.
Cleanup ==
    /\ phase \in {"attached", "detached"}
    /\ cleanupRuns < MaxCleanupRuns
    /\ phase' = "detached"
    /\ cleanupRuns' = cleanupRuns + 1
    /\ tlLive' = FALSE
    /\ stLive' = FALSE
    /\ liveTimelines' = liveTimelines \ {timelineRef}
    /\ pageTrigger' = (IF pageTrigger = "live" THEN "killed" ELSE pageTrigger)
    /\ UNCHANGED << fixed, scrollRatio, effectRuns, timelineRef, progress, playhead, tweens,
                    camera, currentScene, sceneScrollProgress, attachCamera, last, run >>

\* Faulty variant: setScrollProgress(scene / 4).
OnSceneChangeFromScene(scene) ==
    /\ currentScene' = scene
    /\ sceneScrollProgress' = (scene * 100) \div 4

\* Scene's onSceneChange: setCurrentScene(scene); setScrollProgress((scene - 1) / 4).
OnSceneChange(scene) ==
    /\ currentScene' = scene
    /\ sceneScrollProgress' = ((scene - 1) * 100) \div 4

\* Faulty variant: the handler keeps the highest scene reached and never reports a lower one.
OnUpdateKeepsHighest(p) ==
    LET r   == ResolveScene(hook, p)
        seg == IF r > last.seg THEN r ELSE last.seg
        e   == [p |-> p, seg |-> seg, arg |-> seg, prevSeg |-> last.seg]
    IN  /\ last' = e
        /\ run' = Record(run, e)
        /\ IF seg # 0
           THEN OnSceneChange(seg)
           ELSE UNCHANGED << currentScene, sceneScrollProgress >>

\* onUpdate(self) with self.progress = p.
OnUpdate(p) ==
    LET seg == ResolveScene(hook, p)
        e   == [p |-> p, seg |-> seg, arg |-> seg, prevSeg |-> last.seg]
    IN  /\ last' = e
        /\ run' = Record(run, e)
        /\ IF seg # 0
           THEN OnSceneChange(seg)
           ELSE UNCHANGED << currentScene, sceneScrollProgress >>

\* ScrollTrigger's update with progress p.  A live ScrollTrigger takes the new
\* progress, retargets the scrub tween (or, without scrub smoothing, moves the
\* timeline at once) and calls onUpdate.
ScrollTriggerUpdate(p) ==
    /\ progress' = p
    /\ IF stLive
       THEN /\ OnUpdate(p)
            /\ IF ScrubAmount(hook) > 0
               THEN UNCHANGED << playhead, tweens, camera >>
               ELSE LET r == RenderTimeline(TweensOf(hook), tweens, camera,
                                            TimeOf(hook, playhead), TimeOf(hook, p))
                    IN  /\ playhead' = p
                        /\ tweens' = r[1]
                        /\ camera' = r[2]
       ELSE UNCHANGED << playhead, tweens, camera, currentScene, sceneScrollProgress,
                         last, run >>
    /\ UNCHANGED << fixed, phase, effectRuns, cleanupRuns, timelineRef, tlLive, stLive,
                    liveTimelines, pageTrigger, attachCamera >>

\* The page is scrolled to the raw position r, once the app has mounted.
\* ScrollTrigger clips the ratio of the scroll position over its range to
\* [0, 1] before it becomes self.progress.
Scroll(r) ==
    /\ phase # "none"
    /\ scrollRatio' = r
    /\ ScrollTriggerUpdate(clamp(r, 0, 100))

\* A render of the component: the hook body runs and returns
\* timelineRef.current as it is at that moment.  React renders a mounted
\* component only; the effects of a render run after it.
Render ==
    /\ phase # "detached"
    /\ rendered.n < MaxRenders
    /\ rendered' = [n |-> rendered.n + 1, value |-> timelineRef]
    /\ UNCHANGED << liveTimelines, pageTrigger >>
    /\ UNCHANGED << hook, scenes, probe, scrollRatio, phase, effectRuns, cleanupRuns,
                    timelineRef, tlLive, stLive, progress, playhead, tweens, camera,
                    currentScene, sceneScrollProgress, attachCamera, last, run >>

\* Where a frame may find the playhead while it catches up with progress.
Between(a, b, q) == (a < q /\ q < b) \/ (b < q /\ q < a)

\* A frame of the GSAP ticker: the scrub tween moves the playhead of the live
\* timeline towards progress; how far depends on the time elapsed.
Tick(q) ==
    /\ tlLive
    /\ stLive
    /\ playhead # progress
    /\ q = progress \/ (q \in ScrubStops /\ Between(playhead, progress, q))
    /\ LET r == RenderTimeline(TweensOf(hook), tweens, camera,
                               TimeOf(hook, playhead), TimeOf(hook, q))
       IN  /\ playhead' = q
           /\ tweens' = r[1]
           /\ camera' = r[2]
    /\ UNCHANGED << liveTimelines, pageTrigger >>
    /\ UNCHANGED << fixed, scrollRatio, phase, effectRuns, cleanupRuns, timelineRef, tlLive, stLive,
                    progress, currentScene, sceneScrollProgress, attachCamera, last, run >>

Next ==
    \/ \E cam \in {"null", "camera"} : EffectRun(cam)
    \/ Cleanup
    \/ \E p \in ProgressInputs : Scroll(p)
    \/ \E q \in ProgressInputs \cup ScrubStops : Tick(q)

Spec == Init /\ [][Next]_vars

\* The onUpdate handlers on their own: one attach, then any progress values.
NextUpdates ==
    \/ EffectRun("camera")
    \/ \E p \in AllProgress : Scroll(p)

SpecUpdates == Init /\ [][NextUpdates]_vars

\* ---------------------------------------------------------------------------
\* Timelines other than the shipped one
\* ---------------------------------------------------------------------------

\* SceneConfig arrays that differ from SCENE_TIMELINE in one scene; the
\* durations are the shipped ones.  CameraKeyframe.fov is optional and
\* SceneConfig.easing is any GSAP ease name.
LinearGestureFlow == [SCENE_TIMELINE EXCEPT ![2].easing = "none"]

FovOnEndOnly == [SCENE_TIMELINE EXCEPT ![2].camera.end.fov = 6000]

FovOnStartOnly == [SCENE_TIMELINE EXCEPT ![2].camera.start.fov = 6000]

FovOnBothEnds ==
    [SCENE_TIMELINE EXCEPT ![2].camera.start.fov = 5000, ![2].camera.end.fov = 6000]

\* gesture-flow ends at 0.3: no scene holds 0.3 <= p < 0.5.
TimelineWithGap == [SCENE_TIMELINE EXCEPT ![2].scrollEnd = 30]

\* gesture-flow ends at 0.65: it shares 0.5 <= p < 0.65 with technology.
TimelineWithOverlap == [SCENE_TIMELINE EXCEPT ![2].scrollEnd = 65]

\* hero has scrollStart = scrollEnd = 0.
TimelineWithEmptyRange == [SCENE_TIMELINE EXCEPT ![1].scrollEnd = 0]

Timelines ==
    { SCENE_TIMELINE, LinearGestureFlow, FovOnEndOnly, FovOnStartOnly, FovOnBothEnds,
      TimelineWithGap, TimelineWithOverlap, TimelineWithEmptyRange }

\* useScrollAnimation does not read SCENE_TIMELINE.
InitTimelines ==
    /\ hook \in HookNames
    /\ scenes \in (IF hook = "useCameraController" THEN Timelines ELSE {SCENE_TIMELINE})
    /\ probe = NoProbe
    /\ pageTrigger = "none"
    /\ InitScene

\* One attach, then scrolling (overscroll included) and frames.
NextTimelines ==
    \/ EffectRun("camera")
    \/ \E r \in ProgressInputs \cup Overscroll : Scroll(r)
    \/ \E q \in ProgressInputs \cup ScrubStops : Tick(q)

SpecTimelines == InitTimelines /\ [][NextTimelines]_vars

\* The lifecycle of the hook with the renders of the component.
NextRender ==
    \/ Render
    \/ \E cam \in {"null", "camera"} : EffectRun(cam)
    \/ Cleanup
    \/ \E p \in {0, 60} : Scroll(p)

SpecRender == Init /\ [][NextRender]_vars

\* ---------------------------------------------------------------------------
\* The easing table (utils)
\* ---------------------------------------------------------------------------

\* A number t in [0, 1] is the fraction <<n, d>> in lowest terms.
Zero == <<0, 1>>
One == <<1, 1>>

\* t < 0.5 ? 4 * t * t * t : 1 - Math.pow(-2 * t + 2, 3) / 2
easeInOutCubic(t) ==
    LET n == t[1]
        d == t[2]
    IN  IF 2 * n < d
        THEN Frac(4 * Pow(n, 3), Pow(d, 3))
        ELSE Frac(2 * Pow(d, 3) - Pow(2 * (d - n), 3), 2 * Pow(d, 3))

\* 1 - Math.pow(1 - t, 4)
easeOutQuart(t) ==
    LET n == t[1]
        d == t[2]
    IN  Frac(Pow(d, 4) - Pow(d - n, 4), Pow(d, 4))

\* t < 0.5 ? 16 * t * t * t * t * t : 1 - Math.pow(-2 * t + 2, 5) / 2
easeInOutQuint(t) ==
    LET n == t[1]
        d == t[2]
    IN  IF 2 * n < d
        THEN Frac(16 * Pow(n, 5), Pow(d, 5))
        ELSE Frac(2 * Pow(d, 5) - Pow(2 * (d - n), 5), 2 * Pow(d, 5))

\* Math.pow(2, -10 * t) * Math.sin((t * 10 - 0.75) * c4) + 1 for t = k/10:
\* the sine is -cos(k * 120 degrees), that is -1 when 3 divides k and 1/2
\* otherwise, so the value is (2^(k+1) + 2 * sine) / 2^(k+1).
ElasticFormula(t) ==
    LET k == (10 * t[1]) \div t[2]
    IN  Frac(Pow(2, k + 1) + (IF k % 3 = 0 THEN -2 ELSE 1), Pow(2, k + 1))

\* Faulty variant: the formula alone, without the two special cases.
easeOutElasticUnguarded(t) == ElasticFormula(t)

\* t === 0 ? 0 : t === 1 ? 1 : <formula>
easeOutElastic(t) ==
    IF t = Zero THEN Zero
    ELSE IF t = One THEN One
    ELSE ElasticFormula(t)

EasingNames == {"easeInOutCubic", "easeOutQuart", "easeInOutQuint", "easeOutElastic"}

\* easing[name](t), and the GSAP ease of that name for the names of the tweens.
EasingValue(name, t) ==
    CASE name = "easeInOutCubic" -> easeInOutCubic(t)
      [] name = "easeOutQuart"   -> easeOutQuart(t)
      [] name = "easeInOutQuint" -> easeInOutQuint(t)
      [] name = "easeOutElastic" -> easeOutElastic(t)
      [] OTHER                   -> Ease(name, t)

\* The arguments explored: twentieths, and tenths for easeOutElastic, whose
\* sine is rational there.
EasingArguments(name) ==
    IF name = "easeOutElastic"
    THEN { Frac(k, 10) : k \in 0..10 }
    ELSE { Frac(k, 20) : k \in 0..20 }

EasingProbes ==
    UNION { { [fn |-> name, t |-> t, done |-> FALSE, out |-> Zero] :
                t \in EasingArguments(name) } : name \in EasingNames \cup EaseNames }

\* Everything but the probe.
app == << hook, phase, effectRuns, cleanupRuns, timelineRef, tlLive, stLive, progress,
            playhead, tweens, camera, currentScene, sceneScrollProgress,
            scenes, scrollRatio, rendered, liveTimelines, pageTrigger,
            attachCamera, last, run >>

InitEasing ==
    /\ hook = "useCameraController"
    /\ scenes = TimelineInUse
    /\ probe \in EasingProbes
    /\ pageTrigger = "none"
    /\ InitScene

\* One call of an easing function.
ApplyEasing ==
    /\ probe.fn \in EasingNames \cup EaseNames
    /\ ~probe.done
    /\ probe' = [probe EXCEPT !.done = TRUE, !.out = EasingValue(probe.fn, probe.t)]
    /\ UNCHANGED app

NextEasing == ApplyEasing

SpecEasing == InitEasing /\ [][NextEasing]_vars

\* ---------------------------------------------------------------------------
\* WebGL capability detection
\* ---------------------------------------------------------------------------

\* A string is the sequence of its characters.
UpperCaseLetters ==
    << "A", "B", "C", "D", "E", "F", "G", "H", "I", "J", "K", "L", "M",
       "N", "O", "P", "Q", "R", "S", "T", "U", "V", "W", "X", "Y", "Z" >>

LowerCaseLetters ==
    << "a", "b", "c", "d", "e", "f", "g", "h", "i", "j", "k", "l", "m",
       "n", "o", "p", "q", "r", "s", "t", "u", "v", "w", "x", "y", "z" >>

\* String.prototype.toLowerCase
toLowerCase(str) ==
    [i \in DOMAIN str |->
        IF \E k \in DOMAIN UpperCaseLetters : UpperCaseLetters[k] = str[i]
        THEN LowerCaseLetters[CHOOSE k \in DOMAIN UpperCaseLetters : UpperCaseLetters[k] = str[i]]
        ELSE str[i]]

\* String.prototype.includes
includes(str, sub) ==
    \E i \in 0..(Len(str) - Len(sub)) : SubSeq(str, i + 1, i + Len(sub)) = sub

\* Renderer strings: what UNMASKED_RENDERER_WEBGL may report, and the two
\* literals of detectWebGLCapabilities.
NvidiaRtx      == << "N", "V", "I", "D", "I", "A", " ", "R", "T", "X" >>
AdrenoGpu      == << "A", "d", "r", "e", "n", "o" >>
IntelIris      == << "I", "n", "t", "e", "l", " ", "I", "r", "i", "s" >>
IntegratedGpu  == << "I", "N", "T", "E", "G", "R", "A", "T", "E", "D" >>
SwiftShader    == << "S", "w", "i", "f", "t", "S", "h", "a", "d", "e", "r" >>
UnknownName    == << "U", "n", "k", "n", "o", "w", "n" >>
NoneName       == << "n", "o", "n", "e" >>

HardwareRenderers == {NvidiaRtx, AdrenoGpu, IntelIris, IntegratedGpu, SwiftShader}

\* The browser as detectWebGLCapabilities sees it: which context names
\* canvas.getContext grants, which extensions the context has, and the
\* parameters it reports.
Environments ==
    [webgl2 : BOOLEAN, webgl : BOOLEAN, experimental : BOOLEAN,
     debugInfo : BOOLEAN, unmaskedRenderer : {NvidiaRtx, IntelIris},
     maxTextureSize : {2048, 8192},
     anisoExt : BOOLEAN, maxTextureMaxAnisotropy : {16}]

\* canvas.getContext(name): the name of the context obtained, or "null".
getContext(env, name) ==
    IF \/ name = "webgl2" /\ env.webgl2
       \/ name = "webgl" /\ env.webgl
       \/ name = "experimental-webgl" /\ env.experimental
    THEN name
    ELSE "null"

\* The context names detectWebGLCapabilities asks for, in order.
ContextsTried(env) ==
    IF getContext(env, "webgl2") # "null"
    THEN << "webgl2" >>
    ELSE << "webgl2", "webgl", "experimental-webgl" >>

\* Faulty variant: the fallback keeps the version it started with.
detectWebGLCapabilitiesKeepsVersion(env) ==
    LET first    == getContext(env, "webgl2")
        webgl1   == getContext(env, "webgl")
        fallback == IF webgl1 # "null" THEN webgl1 ELSE getContext(env, "experimental-webgl")
        gl       == IF first # "null" THEN first ELSE fallback
    IN  IF gl = "null"
        THEN [supported |-> FALSE, version |-> 0, maxTextureSize |-> 0,
              maxAnisotropy |-> 0, renderer |-> NoneName]
        ELSE [supported |-> TRUE, version |-> 2,
              maxTextureSize |-> env.maxTextureSize,
              maxAnisotropy |-> IF env.anisoExt THEN env.maxTextureMaxAnisotropy ELSE 1,
              renderer |-> IF env.debugInfo THEN env.unmaskedRenderer ELSE UnknownName]

\* detectWebGLCapabilities(); version 0 stands for null.
detectWebGLCapabilities(env) ==
    LET first    == getContext(env, "webgl2")
        webgl1   == getContext(env, "webgl")
        fallback == IF webgl1 # "null" THEN webgl1 ELSE getContext(env, "experimental-webgl")
        gl       == IF first # "null" THEN first ELSE fallback
        version  == IF first # "null" THEN 2 ELSE IF gl # "null" THEN 1 ELSE 0
    IN  IF gl = "null"
        THEN [supported |-> FALSE, version |-> 0, maxTextureSize |-> 0,
              maxAnisotropy |-> 0, renderer |-> NoneName]
        ELSE [supported |-> TRUE, version |-> version,
              maxTextureSize |-> env.maxTextureSize,
              maxAnisotropy |-> IF env.anisoExt THEN env.maxTextureMaxAnisotropy ELSE 1,
              renderer |-> IF env.debugInfo THEN env.unmaskedRenderer ELSE UnknownName]

lowPowerIndicators ==
    << << "i", "n", "t", "e", "l" >>,
       << "i", "n", "t", "e", "g", "r", "a", "t", "e", "d" >>,
       << "s", "w", "i", "f", "t", "s", "h", "a", "d", "e", "r" >> >>

\* Faulty variant: the renderer string is searched as it is, not lower-cased.
canHandleFullExperienceCaseSensitive(capabilities) ==
    IF ~capabilities.supported THEN FALSE
    ELSE IF capabilities.version # 2 THEN FALSE
    ELSE IF capabilities.maxTextureSize < 4096 THEN FALSE
    ELSE ~(\E k \in DOMAIN lowPowerIndicators :
              includes(capabilities.renderer, lowPowerIndicators[k]))

canHandleFullExperience(capabilities) ==
    IF ~capabilities.supported THEN FALSE
    ELSE IF capabilities.version # 2 THEN FALSE
    ELSE IF capabilities.maxTextureSize < 4096 THEN FALSE
    ELSE LET isLowPower ==
                 \E k \in DOMAIN lowPowerIndicators :
                     includes(toLowerCase(capabilities.renderer), lowPowerIndicators[k])
         IN  ~isLowPower

\* dpr in hundredths.
getRecommendedQuality(capabilities) ==
    IF ~capabilities.supported
    THEN [dpr |-> <<100, 100>>, shadows |-> FALSE, postProcessing |-> FALSE,
          particleCount |-> 0]
    ELSE LET canHandleFull == canHandleFullExperience(capabilities)
         IN  IF canHandleFull
             THEN [dpr |-> <<100, 200>>, shadows |-> TRUE, postProcessing |-> TRUE,
                   particleCount |-> 1000]
             ELSE [dpr |-> <<100, 150>>, shadows |-> FALSE, postProcessing |-> FALSE,
                   particleCount |-> 500]

\* Every WebGLCapabilities value of a small range, whether or not
\* detectWebGLCapabilities can return it.
Capabilities ==
    [supported : BOOLEAN, version : {0, 1, 2}, maxTextureSize : {0, 2048, 4095, 4096, 8192},
     maxAnisotropy : {1, 16}, renderer : HardwareRenderers \cup {UnknownName, NoneName}]

NoCapabilities ==
    [supported |-> FALSE, version |-> 0, maxTextureSize |-> 0, maxAnisotropy |-> 0,
     renderer |-> NoneName]

NoQuality ==
    [dpr |-> <<0, 0>>, shadows |-> FALSE, postProcessing |-> FALSE, particleCount |-> 0]

WebGLProbes ==
    { [fn |-> "detectWebGLCapabilities", env |-> e, done |-> FALSE, out |-> NoCapabilities] :
        e \in Environments }
    \cup { [fn |-> "getRecommendedQuality", capabilities |-> c, done |-> FALSE,
            out |-> NoQuality] : c \in Capabilities }

InitWebGL ==
    /\ hook = "useCameraController"
    /\ scenes = TimelineInUse
    /\ probe \in WebGLProbes
    /\ pageTrigger = "none"
    /\ InitScene

\* One call of detectWebGLCapabilities.
DetectWebGLCapabilities ==
    /\ probe.fn = "detectWebGLCapabilities"
    /\ ~probe.done
    /\ probe' = [probe EXCEPT !.done = TRUE, !.out = detectWebGLCapabilities(probe.env)]
    /\ UNCHANGED app

\* One call of getRecommendedQuality.
GetRecommendedQuality ==
    /\ probe.fn = "getRecommendedQuality"
    /\ ~probe.done
    /\ probe' = [probe EXCEPT !.done = TRUE, !.out = getRecommendedQuality(probe.capabilities)]
    /\ UNCHANGED app

NextWebGL ==
    \/ DetectWebGLCapabilities
    \/ GetRecommendedQuality

SpecWebGL == InitWebGL /\ [][NextWebGL]_vars

\* ---------------------------------------------------------------------------
\* A page with a ScrollTrigger of its own
\* ---------------------------------------------------------------------------

\* Other code of the page has created a ScrollTrigger before Scene mounts.
InitPage ==
    /\ hook \in HookNames
    /\ scenes = TimelineInUse
    /\ probe = NoProbe
    /\ pageTrigger = "live"
    /\ InitScene

SpecPage == InitPage /\ [][NextRender]_vars

\* ---------------------------------------------------------------------------
\* useResponsive
\* ---------------------------------------------------------------------------

\* Values of window.innerWidth, around the breakpoints 768 and 1200.
Widths == {320, 500, 767, 768, 1000, 1199, 1200, 1920}

\* The object handleResize passes to setBreakpoint.
handleResize(width) ==
    [isMobile |-> width < 768,
     isTablet |-> width >= 768 /\ width < 1200,
     isDesktop |-> width >= 1200,
     width |-> width]

\* The argument of useState: the flags are literals, the width is read from
\* the window.
InitialBreakpoint(innerWidth) ==
    [isMobile |-> FALSE, isTablet |-> FALSE, isDesktop |-> TRUE, width |-> innerWidth]

\* The hook after its first render: the state it returned, the window it
\* runs in, and whether its resize listener is registered.
InitResponsive ==
    /\ hook = "useCameraController"
    /\ scenes = TimelineInUse
    /\ \E w \in Widths :
           probe = [fn |-> "useResponsive", innerWidth |-> w, stage |-> "rendered",
                    listening |-> FALSE, breakpoint |-> InitialBreakpoint(w)]
    /\ pageTrigger = "none"
    /\ InitScene

\* The effect: handleResize(); window.addEventListener('resize', handleResize).
ResponsiveEffect ==
    /\ probe.fn = "useResponsive"
    /\ probe.stage = "rendered"
    /\ probe' = [probe EXCEPT !.stage = "mounted", !.listening = TRUE,
                              !.breakpoint = handleResize(probe.innerWidth)]
    /\ UNCHANGED app

\* The window is resized to width w; a registered listener runs.
Resize(w) ==
    /\ probe.fn = "useResponsive"
    /\ w # probe.innerWidth
    /\ probe' = [probe EXCEPT !.innerWidth = w,
                              !.breakpoint = IF probe.listening THEN handleResize(w) ELSE @]
    /\ UNCHANGED app

\* The cleanup of the effect: window.removeEventListener('resize', handleResize).
ResponsiveCleanup ==
    /\ probe.fn = "useResponsive"
    /\ probe.stage = "mounted"
    /\ probe' = [probe EXCEPT !.stage = "unmounted", !.listening = FALSE]
    /\ UNCHANGED app

NextResponsive ==
    \/ ResponsiveEffect
    \/ \E w \in Widths : Resize(w)
    \/ ResponsiveCleanup

SpecResponsive == InitResponsive /\ [][NextResponsive]_vars


\* ---------------------------------------------------------------------------
\* Scene-change notification (claims C1 to C4), under SpecUpdates
\* ---------------------------------------------------------------------------

\* An onUpdate has been delivered since the timeline was built.
Updated == last.p # -1

\* The scenes of SCENE_TIMELINE whose range [scrollStart, scrollEnd) holds p.
ScenesContaining(p) ==
    { i \in 1..Len(SCENE_TIMELINE) :
        SCENE_TIMELINE[i].scrollStart <= p /\ p < SCENE_TIMELINE[i].scrollEnd }

\* C1: while attached, an update invokes onSceneChange if and only if it
\* resolves a scene and that scene differs from the one resolved by the update
\* before (or it is the first resolved update); two consecutive updates that
\* resolve the same scene produce no second invocation.
C1_ChangeOnlyOnNewScene ==
    Updated => ((last.arg # 0) <=> (last.seg # 0 /\ last.seg # last.prevSeg))

\* C2: feeding 0.0, 0.1, 0.2, 0.35, 0.55, 0.75, 0.95, 1.0 in order resolves the
\* scenes 1, 1, 2, 2, 3, 4, 5, 5 and invokes onSceneChange exactly four times,
\* at the third, fifth, sixth and seventh input.
C2_ShippedSequence ==
    (run.on /\ RunInputs(run.log) = <<0, 10, 20, 35, 55, 75, 95, 100>>)
        => /\ [i \in DOMAIN run.log |-> run.log[i].seg] = <<1, 1, 2, 2, 3, 4, 5, 5>>
           /\ { i \in DOMAIN run.log : run.log[i].arg # 0 } = {3, 5, 6, 7}

\* C3: an update with p = 1 resolves the last scene of the timeline.
C3_FullProgressIsLastScene ==
    (Updated /\ last.p = 100) => last.seg = Len(SCENE_TIMELINE)

\* C4: for 0 <= p < 1 the value passed to onSceneChange is the 1-based index
\* of the one scene with scrollStart <= p < scrollEnd, an integer in 1..5; a p
\* on an interior boundary resolves the scene that starts there.
C4_SceneIndexOfRange ==
    (Updated /\ last.p < 100)
        => /\ ScenesContaining(last.p) = {last.arg}
           /\ last.arg \in 1..5
           /\ currentScene = last.arg
           /\ \A i \in 2..Len(SCENE_TIMELINE) :
                 last.p = SCENE_TIMELINE[i].scrollStart => last.arg = i

\* An update on the boundary between scenes 3 and 4 has been delivered.
C4_Witness == Updated /\ last.p = 70 /\ last.arg = 4 /\ currentScene = 4


\* ---------------------------------------------------------------------------
\* Camera pose (claims C5 to C7), under Spec
\* ---------------------------------------------------------------------------

\* The scrub tween has caught up: the playhead is at the scroll progress.
Settled == tlLive /\ playhead = progress

\* The camera a timeline of hook h built on camera cam0 shows when its playhead
\* is taken from 0 straight to progress k.
SettledCamera(h, cam0, k) ==
    RenderTimeline(TweensOf(h), FreshTweens(h), cam0, 0, TimeOf(h, k))[2]

\* The scene whose scroll range holds p, the last one for p = 1.
SceneOfRange(p) ==
    IF p = 100 THEN Len(SCENE_TIMELINE) ELSE CHOOSE i \in ScenesContaining(p) : TRUE

\* The eased interpolation between the keyframes of the scene whose scroll
\* range holds p, at the local fraction (p - scrollStart) / (scrollEnd - scrollStart).
RangePose(p) ==
    LET scene == SCENE_TIMELINE[SceneOfRange(p)]
        e     == Ease(scene.easing,
                      Frac(p - scene.scrollStart, scene.scrollEnd - scene.scrollStart))
        a     == scene.camera.start
        b     == scene.camera.end
    IN  [position |-> [i \in 1..3 |-> Lerp(Micro(a.position[i]), Micro(b.position[i]), e)],
         rotation |-> [i \in 1..3 |-> Lerp(Micro(a.rotation[i]), Micro(b.rotation[i]), e)]]

Pose(cam) == [position |-> cam.position, rotation |-> cam.rotation]

\* C5: for every p the pose useCameraController gives the camera is the eased
\* interpolation between camera.start and camera.end of the scene whose scroll
\* range holds p, at the local fraction of p in that range.
C5_PoseFollowsScrollRange ==
    (hook = "useCameraController" /\ Updated /\ Settled) => Pose(camera) = RangePose(progress)

C7_NonMonotonic ==
    (phase = "attached" /\ run.on /\ run.log # << >>
        /\ IsPrefix(RunInputs(run.log), <<60, 30, 60>>))
        => /\ IsPrefix([i \in DOMAIN run.log |-> run.log[i].seg], <<3, 2, 3>>)
           /\ currentScene = ResolveScene(hook, progress)
           /\ sceneScrollProgress = (currentScene - 1) * 25
           /\ Settled => camera = SettledCamera(hook, attachCamera, last.p)
           /\ Len(run.log) = 3
                => /\ [p |-> run.log[3].p, seg |-> run.log[3].seg, arg |-> run.log[3].arg]
                        = [p |-> run.log[1].p, seg |-> run.log[1].seg, arg |-> run.log[1].arg]
                   /\ currentScene = run.log[1].seg

\* 0.6, 0.3, 0.6 has been fed and the camera has come to rest.
C7_Witness ==
    /\ phase = "attached"
    /\ run.on
    /\ RunInputs(run.log) = <<60, 30, 60>>
    /\ Settled
    /\ camera # attachCamera

\* ---------------------------------------------------------------------------
\* Attach and detach (claims C8 to C10), under Spec
\* ---------------------------------------------------------------------------

\* What an engine instance can touch: the camera, its timeline and the state
\* its onSceneChange writes.
engine == << camera, playhead, tweens, currentScene, sceneScrollProgress, last, run >>

\* C8: an effect run with a null camera sets nothing up (no timeline, no scroll
\* trigger), and while that lasts no scroll changes the camera or invokes
\* onSceneChange.
C8_NullCameraIsInert ==
    /\ [](phase = "inert" => ~tlLive /\ ~stLive)
    /\ [][phase' = "inert" => UNCHANGED << engine, timelineRef, tlLive, stLive >>]_vars

\* The page was scrolled after a first effect run with a null camera.
C8_Witness == phase = "inert" /\ effectRuns = 1 /\ progress = 60

\* C9: after the cleanup has run, no progress notification and no pending
\* scrub step changes the camera or invokes onSceneChange.
C9_NothingAfterCleanup ==
    /\ [](phase = "detached" => ~tlLive /\ ~stLive)
    /\ [][(phase = "detached" /\ phase' = "detached") => UNCHANGED engine]_vars

\* Cleanup ran while the scrub tween was still behind, and the page was
\* scrolled afterwards.
C9_Witness ==
    /\ phase = "detached"
    /\ Updated
    /\ playhead # last.p
    /\ progress # last.p

\* C10: every run of the cleanup leaves the engine detached, no live timeline
\* and the camera where it was; a run after the first changes nothing at all.
C10_CleanupIdempotent ==
    [][cleanupRuns' > cleanupRuns
         => /\ phase' = "detached" /\ ~tlLive' /\ ~stLive'
            /\ camera' = camera
            /\ cleanupRuns >= 1
                 => UNCHANGED << fixed, phase, effectRuns, timelineRef, tlLive, stLive,
                                 progress, attachCamera, engine >>]_vars

\* The cleanup of a timeline that had moved the camera has run twice.
C10_Witness == cleanupRuns = 2 /\ phase = "detached" /\ camera # attachCamera

\* ---------------------------------------------------------------------------
\* The shipped timeline (claims C11 and C12)
\* ---------------------------------------------------------------------------

\* The scenes of timeline tl whose range [scrollStart, scrollEnd) holds p.
ScenesOf(tl, p) == { i \in DOMAIN tl : tl[i].scrollStart <= p /\ p < tl[i].scrollEnd }

\* Every range is non-empty and ends where the next one starts.
Contiguous(tl) ==
    /\ \A i \in DOMAIN tl : tl[i].scrollStart < tl[i].scrollEnd
    /\ \A i \in 1..(Len(tl) - 1) : tl[i].scrollEnd = tl[i + 1].scrollStart

\* C11: the timeline the hook runs with starts at 0, ends at 1, has only
\* non-empty ranges, each ending where the next starts; every p in [0, 1) lies
\* in exactly one range; the scene ids are pairwise distinct.
C11_RangesPartitionProgress ==
    /\ scenes[1].scrollStart = 0
    /\ scenes[Len(scenes)].scrollEnd = 100
    /\ Contiguous(scenes)
    /\ \A p \in 0..99 : Cardinality(ScenesOf(scenes, p)) = 1
    /\ \A i, j \in DOMAIN scenes : i # j => scenes[i].id # scenes[j].id
    /\ (Updated /\ hook = "useCameraController" /\ last.p < 100)
           => ScenesOf(scenes, last.p) = {last.seg}

\* An update on an interior boundary found the one scene that starts there.
C11_Witness ==
    /\ hook = "useCameraController"
    /\ Updated
    /\ last.p = 50
    /\ ScenesOf(scenes, 50) = {3}
    /\ last.seg = 3

KeyframesEqual(a, b) ==
    a.position = b.position /\ a.rotation = b.rotation /\ a.fov = b.fov

\* The scene whose tweens include tween k of the shipped camera timeline (a
\* position and a rotation tween per scene).
SceneOfTween(k) == (k + 1) \div 2

\* C12: the end keyframe of every scene but the last equals the start keyframe
\* of the next in position, rotation and fov; so, on a timeline built from the
\* initial camera, every tween that has started found the camera component it
\* animates at the start keyframe of its scene.
C12_AdjacentKeyframesMeet ==
    /\ \A i \in 1..(Len(scenes) - 1) :
           KeyframesEqual(scenes[i].camera.end, scenes[i + 1].camera.start)
    /\ (hook = "useCameraController" /\ attachCamera = InitialCamera)
           => \A k \in DOMAIN tweens :
                  tweens[k].initted
                      => tweens[k].from =
                             KeyframeMicro(scenes[SceneOfTween(k)].camera.start[TweensOf(hook)[k].target])

\* The playhead has come to rest at the end, through every scene boundary.
C12_Witness ==
    /\ hook = "useCameraController"
    /\ attachCamera = InitialCamera
    /\ Settled
    /\ progress = 100
    /\ \A k \in DOMAIN tweens : tweens[k].initted
    /\ Pose(camera) = [position |-> KeyframeMicro(scenes[5].camera.end.position),
                       rotation |-> KeyframeMicro(scenes[5].camera.end.rotation)]

\* ---------------------------------------------------------------------------
\* Timelines in general (claims C13 to C16), under SpecTimelines
\* ---------------------------------------------------------------------------

\* C13: with a linear gesture-flow (range [0.2, 0.5), position [0, 0, 5] to
\* [0, 0.2, 2.8]) the camera at rest at p = 0.35 is half way through the
\* scene's tweens, at the position [0, 0.1, 3.9].
C13_LinearMidpoint ==
    (hook = "useCameraController" /\ scenes = LinearGestureFlow /\ Settled /\ progress = 35)
        => /\ tweens[3].initted
           /\ 2 * tweens[3].tt = TweensOf(hook)[3].dur
           /\ camera.position = <<0, 100000, 3900000>>

\* C14: a timeline whose ranges are not contiguous, overlap or are empty is
\* rejected when the hook attaches: no timeline is built and no update is
\* processed.
C14_InvalidTimelineRejected ==
    ~Contiguous(scenes) => (timelineRef = 0 /\ ~tlLive /\ ~stLive /\ ~Updated)

\* C15: with the shipped timeline an update from a scroll position before the
\* start of the range acts as p = 0 (scene 1, the start pose of the first
\* scene), one from a position past its end as p = 1 (the last scene, its end
\* pose).
C15_OverscrollClamped ==
    LET first == scenes[1].camera.start
        final == scenes[Len(scenes)].camera.end
        atRest == Settled /\ hook = "useCameraController"
    IN  (phase = "attached" /\ Updated /\ scenes = SCENE_TIMELINE)
            => /\ (scrollRatio < 0)
                      => (/\ last.p = 0
                          /\ last.arg = 1
                          /\ (atRest => Pose(camera) =
                                            [position |-> KeyframeMicro(first.position),
                                             rotation |-> KeyframeMicro(first.rotation)]))
               /\ (scrollRatio > 100)
                      => (/\ last.p = 100
                          /\ last.arg = Len(scenes)
                          /\ (atRest => Pose(camera) =
                                            [position |-> KeyframeMicro(final.position),
                                             rotation |-> KeyframeMicro(final.rotation)]))

\* The scenes of the timeline whose end keyframe defines fov.
ScenesWithEndFov == { i \in DOMAIN scenes : scenes[i].camera.end.fov # 0 }

C17_EasingEndpoints ==
    probe.done
        => /\ (probe.t = Zero) => (probe.out = Zero /\ Lerp(5000000, 2800000, probe.out) = 5000000)
           /\ (probe.t = One) => (probe.out = One /\ Lerp(5000000, 2800000, probe.out) = 2800000)

\* easeOutElastic has been called with 1.
C17_Witness ==
    /\ probe.fn = "easeOutElastic"
    /\ probe.done
    /\ probe.t = One
    /\ probe.out = One

\* ---------------------------------------------------------------------------
\* The value the hook returns (claim C18), under SpecRender
\* ---------------------------------------------------------------------------

\* C18: a render that follows an effect run with a camera returns a timeline,
\* and one that is live.
C18_ReturnsLiveTimeline ==
    [][(rendered'.n > rendered.n /\ timelineRef # 0)
           => (rendered'.value # 0 /\ rendered'.value = timelineRef /\ tlLive)]_vars

\* ---------------------------------------------------------------------------
\* WebGL capability detection (claims C19 and C20), under SpecWebGL
\* ---------------------------------------------------------------------------

\* The renderer strings that hold 'intel', 'integrated' or 'swiftshader' in
\* some letter case.
LowPowerRenderers == {IntelIris, IntegratedGpu, SwiftShader}

\* C19: getRecommendedQuality returns the off tier iff supported is false, the
\* full tier iff supported, version 2, maxTextureSize >= 4096 and a renderer
\* without a low-power indicator, and the medium tier otherwise; shadows and
\* postProcessing equal canHandleFullExperience(capabilities).
C19_QualityTiers ==
    (probe.fn = "getRecommendedQuality" /\ probe.done)
        => LET c    == probe.capabilities
               q    == probe.out
               off  == [dpr |-> <<100, 100>>, shadows |-> FALSE, postProcessing |-> FALSE,
                        particleCount |-> 0]
               full == [dpr |-> <<100, 200>>, shadows |-> TRUE, postProcessing |-> TRUE,
                        particleCount |-> 1000]
               med  == [dpr |-> <<100, 150>>, shadows |-> FALSE, postProcessing |-> FALSE,
                        particleCount |-> 500]
               able == /\ c.supported
                       /\ c.version = 2
                       /\ c.maxTextureSize >= 4096
                       /\ c.renderer \notin LowPowerRenderers
           IN  /\ q \in {off, full, med}
               /\ (q = off) <=> ~c.supported
               /\ (q = full) <=> able
               /\ (q = med) <=> (c.supported /\ ~able)
               /\ q.shadows = canHandleFullExperience(c)
               /\ q.postProcessing = canHandleFullExperience(c)

\* The full tier was refused to a WebGL 2 device with large textures because
\* of its renderer string, whose indicator is not in lower case.
C19_Witness ==
    /\ probe.fn = "getRecommendedQuality"
    /\ probe.done
    /\ probe.capabilities.supported
    /\ probe.capabilities.version = 2
    /\ probe.capabilities.maxTextureSize = 4096
    /\ probe.capabilities.renderer = IntelIris
    /\ probe.out.particleCount = 500

\* C20: detectWebGLCapabilities asks for webgl2 first and for webgl and
\* experimental-webgl only if that failed; version is 2 iff webgl2 was
\* obtained, 1 iff it was not and one of the other two was, and otherwise the
\* result is the failure value; supported holds exactly when version is not
\* null; without the debug extension renderer is 'Unknown', without the
\* anisotropy extension maxAnisotropy is 1.
C20_DetectionResult ==
    (probe.fn = "detectWebGLCapabilities" /\ probe.done)
        => LET e == probe.env
               r == probe.out
           IN  /\ ContextsTried(e)[1] = "webgl2"
               /\ (Len(ContextsTried(e)) > 1)
                      <=> (~e.webgl2 /\ SubSeq(ContextsTried(e), 2, 3) = <<"webgl", "experimental-webgl">>)
               /\ (r.version = 2) <=> e.webgl2
               /\ (r.version = 1) <=> (~e.webgl2 /\ (e.webgl \/ e.experimental))
               /\ (~e.webgl2 /\ ~e.webgl /\ ~e.experimental)
                      => r = [supported |-> FALSE, version |-> 0, maxTextureSize |-> 0,
                              maxAnisotropy |-> 0, renderer |-> NoneName]
               /\ r.supported <=> (r.version # 0)
               /\ r.supported
                      => /\ r.maxTextureSize = e.maxTextureSize
                         /\ r.renderer = (IF e.debugInfo THEN e.unmaskedRenderer ELSE UnknownName)
                         /\ r.maxAnisotropy = (IF e.anisoExt THEN e.maxTextureMaxAnisotropy ELSE 1)

\* The fallback to WebGL 1 on a context without either extension.
C20_Witness ==
    /\ probe.fn = "detectWebGLCapabilities"
    /\ probe.done
    /\ ~probe.env.webgl2 /\ ~probe.env.webgl /\ probe.env.experimental
    /\ ~probe.env.debugInfo /\ ~probe.env.anisoExt
    /\ probe.out.version = 1
    /\ probe.out.renderer = UnknownName
    /\ probe.out.maxAnisotropy = 1

\* ---------------------------------------------------------------------------
\* Start pose and tween layout (claims C21 and C22), under Spec
\* ---------------------------------------------------------------------------

\* C21: whenever the scroll progress is 0 and the playhead has caught up, the
\* camera of useCameraController is at the start keyframe of the first scene,
\* wherever it was when the timeline was built.
C21_StartPoseAtZero ==
    (hook = "useCameraController" /\ Settled /\ progress = 0)
        => Pose(camera) = [position |-> KeyframeMicro(scenes[1].camera.start.position),
                           rotation |-> KeyframeMicro(scenes[1].camera.start.rotation)]

\* The tweens of the timeline tws on a camera channel, in source order.
ChannelTweens(tws, channel) ==
    SelectSeq([k \in DOMAIN tws |-> k], LAMBDA k : tws[k].target = channel)

\* The spans [start, end] of those tweens, in time units.
ChannelSpans(tws, channel) ==
    LET ks == ChannelTweens(tws, channel)
    IN  [n \in DOMAIN ks |-> << tws[ks[n]].at, tws[ks[n]].at + tws[ks[n]].dur >>]

\* The tweens of tws on a channel that are strictly inside their span at the
\* playhead.
WritingIn(tws, channel) ==
    { k \in DOMAIN tweens :
        /\ tws[k].target = channel
        /\ tweens[k].initted
        /\ 0 < tweens[k].tt
        /\ tweens[k].tt < tws[k].dur }

Writing(channel) == WritingIn(TweensOf(hook), channel)

\* C22: on each camera channel every tween ends before the next one starts;
\* the spans are those of the cumulative durations 1.2, 2, 1.5, 1.3, 0.8 in
\* useCameraController and [0,1], [1,2.5], [2.5,3.5], [3.5,4.5], [4.5,5] for
\* the position tweens of useScrollAnimation; so at most one tween is under
\* way on a channel wherever the playhead is.
C22_NoOverlapInChannel ==
    LET tws      == TweensOf(hook)
        position == ChannelSpans(tws, "position")
        rotation == ChannelSpans(tws, "rotation")
        byScene  == << <<0, 600>>, <<600, 1600>>, <<1600, 2350>>, <<2350, 3000>>,
                       <<3000, 3400>> >>
    IN  /\ \A n \in 1..(Len(position) - 1) : position[n][2] <= position[n + 1][1]
        /\ \A n \in 1..(Len(rotation) - 1) : rotation[n][2] <= rotation[n + 1][1]
        /\ Cardinality(WritingIn(tws, "position")) <= 1
        /\ Cardinality(WritingIn(tws, "rotation")) <= 1
        /\ (hook = "useCameraController") => (position = byScene /\ rotation = byScene)
        /\ (hook = "useScrollAnimation")
               => (position = << <<0, 500>>, <<500, 1250>>, <<1250, 1750>>, <<1750, 2250>>,
                                 <<2250, 2500>> >>)

\* The playhead rests inside gesture-flow: one position and one rotation
\* tween are under way.
C22_Witness ==
    /\ hook = "useCameraController"
    /\ Settled
    /\ progress = 35
    /\ Writing("position") = {3}
    /\ Writing("rotation") = {4}

\* ---------------------------------------------------------------------------
\* The two handlers (claims C23 and C24), under SpecUpdates
\* ---------------------------------------------------------------------------

\* C23: for the progress of every update, useCameraController and
\* useScrollAnimation pass the same scene to onSceneChange, and one calls it
\* exactly when the other does.
C23_HandlersAgree ==
    Updated => CameraControllerOnUpdate(last.p) = ScrollAnimationOnUpdate(last.p)

\* The position tween that the comments of useScrollAnimation give to each scene.
ScenePositionTween == <<1, 2, 4, 6, 8>>

\* C24: in useScrollAnimation the timeline is 5 long and the position tween
\* of scene i spans the scroll boundaries 0, 0.2, 0.5, 0.7, 0.9, 1 times 5; the
\* scene onUpdate reports for p is the one whose tween holds timeline time 5p.
C24_OffsetsMatchThresholds ==
    hook = "useScrollAnimation"
        => /\ TotalDuration(hook) = 2500
           /\ \A i \in 1..5 :
                  LET tw == TweensOf(hook)[ScenePositionTween[i]]
                      bounds == <<0, 20, 50, 70, 90, 100>>
                  IN  /\ tw.target = "position"
                      /\ tw.at * 100 = bounds[i] * 2500
                      /\ (tw.at + tw.dur) * 100 = bounds[i + 1] * 2500
           /\ Updated
                  => LET tw == TweensOf(hook)[ScenePositionTween[last.arg]]
                         t  == 25 * last.p
                     IN  /\ tw.at <= t
                         /\ t <= tw.at + tw.dur
                         /\ (t = tw.at + tw.dur) => (last.p = 100)

\* An update on the boundary 0.5 reported scene 3, whose tween starts at 2.5.
C24_Witness ==
    /\ hook = "useScrollAnimation"
    /\ Updated
    /\ last.p = 50
    /\ last.arg = 3
    /\ TweensOf(hook)[4].at = 1250

\* ---------------------------------------------------------------------------
\* Live timelines and triggers (claims C25 and C26)
\* ---------------------------------------------------------------------------

\* C25: at most one timeline built by the hook is live; a timeline is built
\* only when none is live; after the cleanup none is live.
C25_OneLiveTimeline ==
    /\ [](/\ Cardinality(liveTimelines) <= 1
          /\ (phase = "detached") => (liveTimelines = {})
          /\ tlLive <=> (timelineRef \in liveTimelines))
    /\ [][(liveTimelines' # liveTimelines /\ liveTimelines' # {}) => (liveTimelines = {})]_vars

\* The timeline of the second effect run is live and the first is not.
C25_Witness ==
    /\ effectRuns = 2
    /\ liveTimelines = {2}
    /\ timelineRef = 2
    /\ rendered.n > 0

\* C26: a ScrollTrigger created by other code of the page is never killed by
\* the cleanup of the hook.
C26_OtherTriggersSurvive == pageTrigger # "killed"

\* ---------------------------------------------------------------------------
\* Scene state (claim C27), under Spec
\* ---------------------------------------------------------------------------

C28_FlagsAgreeWithWidth ==
    probe.fn = "useResponsive"
        => LET b == probe.breakpoint
           IN  /\ b.isMobile <=> (b.width < 768)
               /\ b.isTablet <=> (b.width >= 768 /\ b.width < 1200)
               /\ b.isDesktop <=> (b.width >= 1200)

====
